---- MODULE Spec2Model ----
(***************************************************************************)
(* State-machine model of the toolkit package (v2/tools.go): the multipart *)
(* upload pipeline (UploadFiles, UploadOneFile, CreateDirIfNotExist), the  *)
(* strict JSON request decoder (ReadJSON), the JSON response writer        *)
(* (WriteJSON, ErrorJSON) and the accesses of concurrent calls to one      *)
(* shared Tools value.                                                     *)
(*                                                                         *)
(* There are four specifications over one set of variables:                *)
(*   SpecUpload  one call of UploadFiles / UploadOneFile                   *)
(*   SpecJSON    one call of ReadJSON                                      *)
(*   SpecWrite   one call of WriteJSON / ErrorJSON                         *)
(*   SpecConc    two goroutines calling operations on one *Tools           *)
(* Each leaves the variables of the other three at their idle values.      *)
(***************************************************************************)
EXTENDS Integers, Sequences, FiniteSets, TLC

(***************************************************************************)
(* Bounds of the model.                                                    *)
(***************************************************************************)
\* Most file parts in one multipart request.
MaxParts == 2
\* Length in bytes of a "short" part (shorter than the sniff buffer).
SmallSize == 100
\* Length in bytes of a "long" part (longer than the sniff buffer).
LargeSize == 600
\* A configured MaxFileSize that two long parts together exceed.
SmallLimit == 1000

(***************************************************************************)
(* Program constants.                                                      *)
(***************************************************************************)
\* buff := make([]byte, 512)
SniffLen == 512
\* t.MaxFileSize = 1024 * 1024 * 1024
DefaultMaxFileSize == 1024 * 1024 * 1024

VARIABLES
    t,              \* the Tools value the methods are called on (pointer receiver)
    \* ---- upload pipeline ----
    req,            \* the *http.Request: [multipart, parts]
    call,           \* which method the caller invoked and its variadic rename
    renameFile,     \* UploadFiles' local renameFile
    dirState,       \* uploadDir on the file system: "exists" | "absent" | "noparent"
    disk,           \* files in uploadDir: name -> [part, from, n]
    form,           \* r.MultipartForm.File after ParseMultipartForm: field -> <<part index>>
    inMemory,       \* the parts ParseMultipartForm kept in memory (the rest are temp files)
    visited,        \* keys of form already taken by the outer range
    cur,            \* the key the outer range is at, as <<field>> or <<>>
    idx,            \* headers of cur already processed
    uploadedFiles,  \* UploadFiles' local uploadedFiles
    opened,         \* history: part indexes hdr.Open() was called on, in order
    written,        \* history: part indexes io.Copy completed for, in order
    pc,             \* position of the call
    ret,            \* what UploadFiles returned: [files, err]
    oneRet,         \* what UploadOneFile returned: [file, err, panic]
    \* ---- JSON decoder ----
    jreq,           \* the request of ReadJSON: [body, end, target]
    maxBytes,       \* ReadJSON's local maxBytes
    dec,            \* the json.Decoder on the capped body: [buf, end, scanp, strict]
    firstErr,       \* the error the first dec.Decode returned
    jpc,            \* position of the call of ReadJSON
    jret,           \* the error ReadJSON returned: [msg, num, text]
    \* ---- JSON response writer ----
    wreq,           \* the call of WriteJSON / ErrorJSON: [fn, status, data, headers, preset]
    w,              \* the http.ResponseWriter
    out,            \* WriteJSON's local out (json.Marshal's result)
    wpc,            \* position of the call
    wret,           \* the error WriteJSON returned
    \* ---- goroutines sharing t ----
    gcall,          \* per goroutine: the method it calls
    gpc,            \* per goroutine: its position in the method
    glimit          \* per goroutine: the limit it handed to the parser

uploadVars == <<req, call, renameFile, dirState, disk, form, inMemory, visited, cur,
                idx, uploadedFiles, opened, written, pc, ret, oneRet>>

jsonVars == <<jreq, maxBytes, dec, firstErr, jpc, jret>>

writeVars == <<wreq, w, out, wpc, wret>>

concVars == <<gcall, gpc, glimit>>

vars == <<t, uploadVars, jsonVars, writeVars, concVars>>

notUpload == <<jsonVars, writeVars, concVars>>

notJSON == <<uploadVars, writeVars, concVars>>

notWrite == <<uploadVars, jsonVars, concVars>>

notConc == <<uploadVars, jsonVars, writeVars>>

(***************************************************************************)
(* Small helpers.                                                          *)
(***************************************************************************)
Min(a, b) == IF a < b THEN a ELSE b

RECURSIVE SumSizes(_)
SumSizes(ps) == IF ps = <<>> THEN 0 ELSE Head(ps).size + SumSizes(Tail(ps))

RECURSIVE SeqsUpTo(_, _)
SeqsUpTo(S, n) ==
    IF n = 0 THEN {<<>>}
    ELSE LET shorter == SeqsUpTo(S, n - 1)
         IN shorter \cup {Append(s, x) : s \in {q \in shorter : Len(q) = n - 1}, x \in S}

Range(s) == {s[i] : i \in DOMAIN s}

(***************************************************************************)
(* MIME strings and strings.EqualFold.                                     *)
(***************************************************************************)
\* Unicode simple case folding of the MIME strings used here.
Fold(s) ==
    CASE s = "IMAGE/PNG" -> "image/png"
      [] s = "Image/Jpeg" -> "image/jpeg"
      [] OTHER -> s

EqualFold(a, b) == Fold(a) = Fold(b)

\* http.DetectContentType on the sniff buffer, by the signature it starts with.
DetectContentType(magic) ==
    CASE magic = "PNG" -> "image/png"
      [] magic = "JPEG" -> "image/jpeg"
      [] OTHER -> "application/octet-stream"

(***************************************************************************)
(* Inputs of an upload.                                                    *)
(***************************************************************************)
Fields == {"file", "extra"}

\* Client-supplied file names, as stem and extension (filepath.Ext).
FileNames == {[stem |-> "img", ext |-> ".png"], [stem |-> "doc", ext |-> ".jpg"]}

\* Contents of a part: its leading signature and its length in bytes.
Contents == {[magic |-> "none", size |-> 0],
             [magic |-> "PNG", size |-> SmallSize],
             [magic |-> "JPEG", size |-> LargeSize]}

Parts == {[field |-> f, filename |-> n, magic |-> c.magic, size |-> c.size] :
            f \in Fields, n \in FileNames, c \in Contents}

Requests == {[multipart |-> FALSE, parts |-> <<>>]}
            \cup {[multipart |-> TRUE, parts |-> ps] : ps \in SeqsUpTo(Parts, MaxParts)}

AllowLists == {<<>>, <<"image/jpeg">>, <<"IMAGE/PNG", "image/jpeg">>}

Calls == {[fn |-> "UploadFiles", rename |-> <<>>],
          [fn |-> "UploadFiles", rename |-> <<FALSE>>],
          [fn |-> "UploadOneFile", rename |-> <<>>],
          [fn |-> "UploadOneFile", rename |-> <<FALSE>>]}

\* Values t.RandomString(25) may return.
RandomStrings == {"rnd1", "rnd2"}

NoError == "nil"

(***************************************************************************)
(* The idle values of each group of variables.                             *)
(***************************************************************************)
IdleUpload ==
    /\ req = [multipart |-> FALSE, parts |-> <<>>]
    /\ call = [fn |-> "none", rename |-> <<>>]
    /\ renameFile = TRUE
    /\ dirState = "exists"
    /\ disk = <<>>
    /\ form = <<>>
    /\ inMemory = {}
    /\ visited = {}
    /\ cur = <<>>
    /\ idx = 0
    /\ uploadedFiles = <<>>
    /\ opened = <<>>
    /\ written = <<>>
    /\ pc = "idle"
    /\ ret = [files |-> <<>>, err |-> NoError]
    /\ oneRet = [file |-> <<>>, err |-> NoError, panic |-> FALSE]

IdleJSON ==
    /\ jreq = [body |-> <<>>, end |-> "EOF", target |-> "pointer"]
    /\ maxBytes = 0
    /\ dec = [buf |-> <<>>, end |-> "EOF", scanp |-> 1, strict |-> FALSE]
    /\ firstErr = [type |-> "none", field |-> "", offset |-> 0]
    /\ jpc = "idle"
    /\ jret = [msg |-> NoError, num |-> 0, text |-> ""]

IdleWrite ==
    /\ wreq = [fn |-> "none", status |-> <<>>, data |-> "none", headers |-> <<>>,
               preset |-> <<>>]
    /\ w = [header |-> <<>>, wroteHeader |-> FALSE, status |-> 0, sent |-> <<>>,
            body |-> <<>>, statusWrites |-> 0]
    /\ out = <<>>
    /\ wpc = "idle"
    /\ wret = NoError

IdleConc ==
    /\ gcall = <<>>
    /\ gpc = <<>>
    /\ glimit = <<>>

(***************************************************************************)
(* The upload pipeline.                                                    *)
(***************************************************************************)
InitUpload ==
    /\ t \in [MaxFileSize : {0, SmallLimit}, AllowedFileTypes : AllowLists,
              MaxJSONSize : {0}, AllowUnknownFields : {FALSE}]
    /\ req \in Requests
    /\ call \in Calls
    /\ renameFile = TRUE
    /\ dirState \in {"exists", "absent", "noparent"}
    /\ disk = <<>>
    /\ form = <<>>
    /\ inMemory = {}
    /\ visited = {}
    /\ cur = <<>>
    /\ idx = 0
    /\ uploadedFiles = <<>>
    /\ opened = <<>>
    /\ written = <<>>
    /\ pc = "entry"
    /\ ret = [files |-> <<>>, err |-> NoError]
    /\ oneRet = [file |-> <<>>, err |-> NoError, panic |-> FALSE]
    /\ IdleJSON
    /\ IdleWrite
    /\ IdleConc

\* The renameFile that UploadOneFile passes on, or the caller's own variadic.
RenameArg ==
    IF call.fn = "UploadOneFile"
    THEN <<IF Len(call.rename) > 0 THEN call.rename[1] ELSE TRUE>>
    ELSE call.rename

\* if t.MaxFileSize == 0 { t.MaxFileSize = 1024 * 1024 * 1024 }
DefaultedMaxFileSize(m) == IF m = 0 THEN DefaultMaxFileSize ELSE m

\* UploadFiles up to the call of CreateDirIfNotExist.
UploadFilesEntry ==
    /\ pc = "entry"
    /\ renameFile' = IF Len(RenameArg) > 0 THEN RenameArg[1] ELSE TRUE
    /\ t' = [t EXCEPT !.MaxFileSize = DefaultedMaxFileSize(t.MaxFileSize)]
    /\ pc' = "mkdir"
    /\ UNCHANGED <<req, call, dirState, disk, form, inMemory, visited, cur, idx,
                   uploadedFiles, opened, written, ret, oneRet>>
    /\ UNCHANGED notUpload

\* CreateDirIfNotExist: os.Stat, then os.Mkdir (one level) when the path is absent.
CreateDirIfNotExist ==
    /\ pc = "mkdir"
    /\ IF dirState = "noparent"
       THEN /\ ret' = [files |-> <<>>, err |-> "mkdir: no such file or directory"]
            /\ pc' = "returned"
            /\ UNCHANGED dirState
       ELSE /\ dirState' = "exists"
            /\ pc' = "parse"
            /\ UNCHANGED ret
    /\ UNCHANGED <<t, req, call, renameFile, disk, form, inMemory, visited, cur, idx,
                   uploadedFiles, opened, written, oneRet>>
    /\ UNCHANGED notUpload

\* form.File[name] = append(form.File[name], fh), part by part in stream order.
FormFile(parts) ==
    [f \in {parts[i].field : i \in DOMAIN parts} |->
        SelectSeq([i \in DOMAIN parts |-> i], LAMBDA i : parts[i].field = f)]

\* multipart.Reader.ReadForm(maxMemory): file parts are kept in memory while their
\* total stays within maxMemory, the others go to temporary files; the size of the
\* body is not limited.
RECURSIVE KeptInMemory(_, _, _)
KeptInMemory(parts, i, left) ==
    IF i > Len(parts) THEN {}
    ELSE IF parts[i].size <= left
         THEN {i} \cup KeptInMemory(parts, i + 1, left - parts[i].size)
         ELSE KeptInMemory(parts, i + 1, 0)

\* err = r.ParseMultipartForm(int64(t.MaxFileSize))
ParseMultipartForm ==
    /\ pc = "parse"
    /\ IF ~req.multipart
       THEN /\ ret' = [files |-> <<>>, err |-> "uploaded file is too big"]
            /\ pc' = "returned"
            /\ UNCHANGED <<form, inMemory>>
       ELSE /\ form' = FormFile(req.parts)
            /\ inMemory' = KeptInMemory(req.parts, 1, t.MaxFileSize)
            /\ pc' = "range"
            /\ UNCHANGED ret
    /\ UNCHANGED <<t, req, call, renameFile, dirState, disk, visited, cur, idx,
                   uploadedFiles, opened, written, oneRet>>
    /\ UNCHANGED notUpload

\* _, err = infile.Read(buff): the bytes read and the error, from position 0.
SniffRead(size) ==
    IF size = 0 THEN [n |-> 0, err |-> "EOF"]
    ELSE [n |-> Min(SniffLen, size), err |-> NoError]

AllowedAlways(types, fileType) == TRUE

\* The allow-list loop over t.AllowedFileTypes.
Allowed(types, fileType) ==
    IF Len(types) > 0
    THEN \E i \in DOMAIN types : EqualFold(fileType, types[i])
    ELSE TRUE

SeekNone(pos) == pos

\* infile.Seek(0, 0): the new read position.
SeekStart(pos) == 0

\* uploadedFile.NewFileName
NewFileName(rename, rnd, filename) ==
    IF rename THEN [stem |-> rnd, ext |-> filename.ext] ELSE filename

\* os.Create truncates or creates the file; io.Copy writes n bytes read from pos.
WriteFile(d, name, part, pos, n) ==
    [k \in DOMAIN d \cup {name} |->
        IF k = name THEN [part |-> part, from |-> pos, n |-> n] ELSE d[k]]

Prepend(files, f) == <<f>> \o files

\* uploadedFiles = append(uploadedFiles, &uploadedFile)
AppendFile(files, f) == Append(files, f)

\* The header the two range loops take next: the next one of the current key, or
\* the first one of a key not visited yet (Go ranges over a map in no fixed order).
NextHeaders ==
    IF cur # <<>> /\ idx < Len(form[cur[1]])
    THEN {[field |-> cur[1], i |-> idx + 1]}
    ELSE {[field |-> f, i |-> 1] : f \in (DOMAIN form) \ visited}

\* One run of the closure of UploadFiles on one header, and the check of its error.
\* fail is the step at which the file system fails, if any.
UploadPart ==
    /\ pc = "range"
    /\ \E h \in NextHeaders, fail \in {"none", "open", "seek", "create", "copy"},
          rnd \in RandomStrings :
        LET p == form[h.field][h.i]
            part == req.parts[p]
            sniff == SniffRead(part.size)
            fileType == DetectContentType(part.magic)
            pos == SeekStart(sniff.n)
            name == NewFileName(renameFile, rnd, part.filename)
            abort(e) == /\ uploadedFiles' = <<>>
                        /\ ret' = [files |-> <<>>, err |-> e]
                        /\ pc' = "returned"
        IN /\ visited' = visited \cup {h.field}
           /\ cur' = <<h.field>>
           /\ idx' = h.i
           /\ IF fail = "open"
              THEN /\ abort("open failed")
                   /\ UNCHANGED <<disk, opened, written>>
              ELSE /\ opened' = Append(opened, p)
                   /\ IF sniff.err # NoError
                      THEN /\ abort(sniff.err)
                           /\ UNCHANGED <<disk, written>>
                      ELSE IF ~Allowed(t.AllowedFileTypes, fileType)
                      THEN /\ abort("uploaded file type is not permitted")
                           /\ UNCHANGED <<disk, written>>
                      ELSE IF fail = "seek"
                      THEN /\ abort("seek failed")
                           /\ UNCHANGED <<disk, written>>
                      ELSE IF fail = "create"
                      THEN /\ abort("create failed")
                           /\ UNCHANGED <<disk, written>>
                      ELSE IF fail = "copy"
                      THEN /\ \E k \in {0, (part.size - pos) \div 2} :
                                disk' = WriteFile(disk, name, p, pos, k)
                           /\ abort("copy failed")
                           /\ UNCHANGED written
                      ELSE /\ disk' = WriteFile(disk, name, p, pos, part.size - pos)
                           /\ written' = Append(written, p)
                           /\ uploadedFiles' = AppendFile(uploadedFiles,
                                 [NewFileName |-> name,
                                  OriginalFileName |-> part.filename,
                                  FileSize |-> part.size - pos])
                           /\ UNCHANGED <<ret, pc>>
    /\ UNCHANGED <<t, req, call, renameFile, dirState, form, inMemory, oneRet>>
    /\ UNCHANGED notUpload

\* Both range loops are exhausted: return uploadedFiles, nil
UploadFilesReturn ==
    /\ pc = "range"
    /\ NextHeaders = {}
    /\ ret' = [files |-> uploadedFiles, err |-> NoError]
    /\ pc' = "returned"
    /\ UNCHANGED <<t, req, call, renameFile, dirState, disk, form, inMemory, visited,
                   cur, idx, uploadedFiles, opened, written, oneRet>>
    /\ UNCHANGED notUpload

\* UploadOneFile after its call of UploadFiles: return nil, err or files[0], nil.
\* files[0] on an empty slice is a run-time panic (index out of range).
UploadOneFileReturn ==
    /\ pc = "returned"
    /\ call.fn = "UploadOneFile"
    /\ oneRet' = IF ret.err # NoError
                 THEN [file |-> <<>>, err |-> ret.err, panic |-> FALSE]
                 ELSE IF Len(ret.files) = 0
                 THEN [file |-> <<>>, err |-> NoError, panic |-> TRUE]
                 ELSE [file |-> <<ret.files[1]>>, err |-> NoError, panic |-> FALSE]
    /\ pc' = "done"
    /\ UNCHANGED <<t, req, call, renameFile, dirState, disk, form, inMemory, visited,
                   cur, idx, uploadedFiles, opened, written, ret>>
    /\ UNCHANGED notUpload

NextUpload ==
    \/ UploadFilesEntry
    \/ CreateDirIfNotExist
    \/ ParseMultipartForm
    \/ UploadPart
    \/ UploadFilesReturn
    \/ UploadOneFileReturn

SpecUpload == InitUpload /\ [][NextUpload]_vars

(***************************************************************************)
(* The strict JSON decoder.                                                *)
(*                                                                         *)
(* A body is a sequence of lexical units, each counted as one byte:        *)
(*   "{" "}"  braces          "F"  the key "foo" with its colon            *)
(*   "s"  a string value      "U"  the key "fooo" with its colon           *)
(*   "n"  a number value      " "  white space                             *)
(* An object holds at most one member (there is no comma); objects nest.   *)
(* The target of the first Decode is struct{ Foo string `json:"foo"` }.    *)
(***************************************************************************)
\* Longest request body.
MaxBody == 4
\* A configured MaxJSONSize shorter than the longest bodies.
JsonCap == 3
\* maxBytes := 1024 * 1024
DefaultMaxJSONSize == 1024 * 1024

Alphabet == {"{", "}", "F", "U", "s", "n", " "}

Bodies == SeqsUpTo(Alphabet, MaxBody)

\* How the underlying request body ends after its last byte.
BodyEnds == {"EOF", "connection reset"}

TooLargeText == "http: request body too large"

NoErr == [type |-> "none", field |-> "", offset |-> 0]

Err(type, field, offset) == [type |-> type, field |-> field, offset |-> offset]

InitJSON ==
    /\ t \in [MaxFileSize : {0}, AllowedFileTypes : {<<>>},
              MaxJSONSize : {0, JsonCap}, AllowUnknownFields : BOOLEAN]
    /\ jreq \in [body : Bodies, end : BodyEnds, target : {"pointer", "non-pointer"}]
    /\ maxBytes = 0
    /\ dec = [buf |-> <<>>, end |-> "EOF", scanp |-> 1, strict |-> FALSE]
    /\ firstErr = NoErr
    /\ jpc = "entry"
    /\ jret = [msg |-> NoError, num |-> 0, text |-> ""]
    /\ IdleUpload
    /\ IdleWrite
    /\ IdleConc

IgnoreMaxJSONSize(m) == DefaultMaxJSONSize

\* maxBytes := 1024 * 1024; if t.MaxJSONSize != 0 { maxBytes = t.MaxJSONSize }
EffectiveMaxBytes(m) == IF m # 0 THEN m ELSE DefaultMaxJSONSize

\* http.MaxBytesReader(w, r.Body, n): the bytes it hands on and the error that
\* ends them (its own once the body has more than n bytes).
MaxBytesReader(body, end, n) ==
    [data |-> SubSeq(body, 1, Min(Len(body), n)),
     end |-> IF Len(body) > n THEN TooLargeText ELSE end]

\* ReadJSON up to the first Decode: the cap, the decoder and its strictness.
ReadJSONEntry ==
    /\ jpc = "entry"
    /\ LET n == EffectiveMaxBytes(t.MaxJSONSize)
           capped == MaxBytesReader(jreq.body, jreq.end, n)
       IN /\ maxBytes' = n
          /\ dec' = [buf |-> capped.data, end |-> capped.end, scanp |-> 1,
                     strict |-> ~t.AllowUnknownFields]
    /\ jpc' = "decode"
    /\ UNCHANGED <<t, jreq, firstErr, jret>>
    /\ UNCHANGED notJSON

\* encoding/json's scanner from unit i on: "value" with the index after the value,
\* "syntax" with the index of the offending unit, or "more" when the buffer ends
\* inside the value.  A top-level string or number ends only at the unit after it.
RECURSIVE Scan(_, _, _, _)
Scan(buf, i, mode, depth) ==
    IF i > Len(buf) THEN [st |-> "more", mode |-> mode, next |-> i]
    ELSE LET c == buf[i]
             syntax == [st |-> "syntax", mode |-> mode, next |-> i]
             skip == Scan(buf, i + 1, mode, depth)
             close == IF depth = 1
                      THEN [st |-> "value", mode |-> "end", next |-> i + 1]
                      ELSE Scan(buf, i + 1, "afterValue", depth - 1)
         IN CASE mode = "begin" ->
                    IF c = " " THEN skip
                    ELSE IF c = "{" THEN Scan(buf, i + 1, "keyOrEnd", depth + 1)
                    ELSE IF c \in {"s", "n"}
                    THEN IF depth = 0 THEN Scan(buf, i + 1, "endTop", 0)
                                      ELSE Scan(buf, i + 1, "afterValue", depth)
                    ELSE syntax
              [] mode = "keyOrEnd" ->
                    IF c = " " THEN skip
                    ELSE IF c = "}" THEN close
                    ELSE IF c \in {"F", "U"} THEN Scan(buf, i + 1, "begin", depth)
                    ELSE syntax
              [] mode = "afterValue" ->
                    IF c = " " THEN skip
                    ELSE IF c = "}" THEN close
                    ELSE syntax
              [] OTHER ->
                    IF c = " " THEN [st |-> "value", mode |-> "end", next |-> i]
                    ELSE syntax

NonSpace(b) == \E i \in DOMAIN b : b[i] # " "

\* Decoder.readValue: the scan of the buffered bytes, and only then the error
\* that ended the reads.
ReadValue(buf, start, end) ==
    LET r == Scan(buf, start, "begin", 0)
    IN CASE r.st = "value" -> [err |-> NoErr, next |-> r.next]
         [] r.st = "syntax" -> [err |-> Err("SyntaxError", "", r.next), next |-> start]
         [] OTHER ->
              IF end = "EOF"
              THEN IF r.mode = "endTop" THEN [err |-> NoErr, next |-> r.next]
                   ELSE IF NonSpace(SubSeq(buf, start, Len(buf)))
                   THEN [err |-> Err("io.ErrUnexpectedEOF", "", 0), next |-> start]
                   ELSE [err |-> Err("io.EOF", "", 0), next |-> start]
              ELSE IF end = "unexpected EOF"
              THEN [err |-> Err("io.ErrUnexpectedEOF", "", 0), next |-> start]
              ELSE IF end = TooLargeText
              THEN [err |-> Err("MaxBytesError", "", 0), next |-> start]
              ELSE [err |-> Err("net.OpError", "", 0), next |-> start]

RECURSIVE FirstNonSpace(_, _)
FirstNonSpace(v, i) ==
    IF i > Len(v) THEN i ELSE IF v[i] # " " THEN i ELSE FirstNonSpace(v, i + 1)

\* decodeState.unmarshal of one scanned value into a struct whose only field (if
\* any) is the string field named by key "F".
Unmarshal(v, target, known, strict) ==
    IF target # "pointer" THEN Err("InvalidUnmarshalError", "", 0)
    ELSE LET i == FirstNonSpace(v, 1)
             j == FirstNonSpace(v, i + 1)
             k == FirstNonSpace(v, j + 1)
         IN IF v[i] # "{" THEN Err("UnmarshalTypeError", "", i)
            ELSE IF v[j] = "}" THEN NoErr
            ELSE IF v[j] \in known
            THEN IF v[k] = "s" THEN NoErr ELSE Err("UnmarshalTypeError", "foo", k)
            ELSE IF strict
            THEN Err("unknown field", IF v[j] = "U" THEN "fooo" ELSE "foo", 0)
            ELSE NoErr

\* Decoder.Decode: read one whole value, then unmarshal it.
Decode(d, target, known) ==
    LET rv == ReadValue(d.buf, d.scanp, d.end)
    IN IF rv.err # NoErr THEN rv
       ELSE [err |-> Unmarshal(SubSeq(d.buf, d.scanp, rv.next - 1), target, known, d.strict),
             next |-> rv.next]

\* err.Error()
ErrorText(e) ==
    CASE e.type = "MaxBytesError" -> TooLargeText
      [] e.type = "InvalidUnmarshalError" -> "json: Unmarshal(non-pointer)"
      [] e.type = "net.OpError" -> "read: connection reset by peer"
      [] OTHER -> e.type

Msg(msg, num, text) == [msg |-> msg, num |-> num, text |-> text]

ClassifyRaw(e, limit) == Msg(ErrorText(e), 0, "")

\* The switch on the error of the first Decode.
Classify(e, limit) ==
    CASE e.type = "SyntaxError" ->
            Msg("body contains badly formed JSON at character %d", e.offset, "")
      [] e.type = "io.ErrUnexpectedEOF" -> Msg("body contains badly formed JSON", 0, "")
      [] e.type = "UnmarshalTypeError" ->
            IF e.field # ""
            THEN Msg("body contains incorrect JSON type for field %q", 0, e.field)
            ELSE Msg("body contains incorrect JSON type at characted %d", e.offset, "")
      [] e.type = "io.EOF" -> Msg("body must not be empty", 0, "")
      [] e.type = "unknown field" -> Msg("body contains unknown key %s", 0, e.field)
      [] ErrorText(e) = TooLargeText ->
            Msg("body must not be larged than %d bytes", limit, "")
      [] e.type = "InvalidUnmarshalError" ->
            Msg("error unmarshaling JSON %s", 0, ErrorText(e))
      [] OTHER -> Msg(ErrorText(e), 0, "")

\* err := dec.Decode(data) and the switch on err.
DecodeFirst ==
    /\ jpc = "decode"
    /\ LET r == Decode(dec, jreq.target, {"F"})
       IN /\ firstErr' = r.err
          /\ IF r.err # NoErr
             THEN /\ jret' = Classify(r.err, maxBytes)
                  /\ jpc' = "done"
                  /\ UNCHANGED dec
             ELSE /\ dec' = [dec EXCEPT !.scanp = r.next]
                  /\ jpc' = "second"
                  /\ UNCHANGED jret
    /\ UNCHANGED <<t, jreq, maxBytes>>
    /\ UNCHANGED notJSON

OnlyOneValueIfDecoded(e) ==
    IF e = NoErr THEN Msg("body must contain only one JSON value", 0, "")
    ELSE Msg(NoError, 0, "")

\* if err != io.EOF { return errors.New("body must contain only one JSON value") }
OnlyOneValue(e) ==
    IF e.type # "io.EOF" THEN Msg("body must contain only one JSON value", 0, "")
    ELSE Msg(NoError, 0, "")

\* err = dec.Decode(&struct{}{}) and the check of err.
DecodeSecond ==
    /\ jpc = "second"
    /\ jret' = OnlyOneValue(Decode(dec, "pointer", {}).err)
    /\ jpc' = "done"
    /\ UNCHANGED <<t, jreq, maxBytes, dec, firstErr>>
    /\ UNCHANGED notJSON

NextJSON ==
    \/ ReadJSONEntry
    \/ DecodeFirst
    \/ DecodeSecond

SpecJSON == InitJSON /\ [][NextJSON]_vars

(***************************************************************************)
(* The JSON response writer.                                               *)
(***************************************************************************)
\* http.StatusBadRequest
StatusBadRequest == 400
\* The status an implicit WriteHeader sends (http.StatusOK).
StatusOK == 200
\* http.StatusServiceUnavailable, the status of TestTools_ErrorJSON.
StatusServiceUnavailable == 503

HeaderMaps ==
    {[k \in {"Foo"} |-> "BAR"],
     [k \in {"Foo", "Content-Type"} |-> IF k = "Foo" THEN "BAR" ELSE "text/html"]}

\* JSONResponse values, by what Data holds; a channel cannot be marshalled.
Payloads == {[Error |-> FALSE, Message |-> "test message", Data |-> d] :
                d \in {"nil", "value", "chan"}}

WriteCalls ==
    {[fn |-> "WriteJSON", status |-> <<c>>, data |-> d, headers |-> h, preset |-> p] :
        c \in {StatusOK, StatusServiceUnavailable}, d \in Payloads,
        h \in {<<>>} \cup {<<m>> : m \in HeaderMaps},
        p \in {<<>>, [k \in {"Content-Type"} |-> "text/plain"]}}
    \cup
    {[fn |-> "ErrorJSON", status |-> c, data |-> "some error", headers |-> <<>>,
      preset |-> p] :
        c \in {<<>>, <<StatusServiceUnavailable>>},
        p \in {<<>>, [k \in {"Content-Type"} |-> "text/plain"]}}

FreshWriter(preset) ==
    [header |-> preset, wroteHeader |-> FALSE, status |-> 0, sent |-> <<>>,
     body |-> <<>>, statusWrites |-> 0]

InitWrite ==
    /\ t \in [MaxFileSize : {0}, AllowedFileTypes : {<<>>},
              MaxJSONSize : {0}, AllowUnknownFields : {FALSE}]
    /\ wreq \in WriteCalls
    /\ w = FreshWriter(wreq.preset)
    /\ out = <<>>
    /\ wpc = "entry"
    /\ wret = NoError
    /\ IdleUpload
    /\ IdleJSON
    /\ IdleConc

\* ErrorJSON's statusCode and payload; WriteJSON's own arguments otherwise.
StatusArg ==
    IF wreq.fn = "ErrorJSON"
    THEN IF Len(wreq.status) > 0 THEN wreq.status[1] ELSE StatusBadRequest
    ELSE wreq.status[1]

DataArg ==
    IF wreq.fn = "ErrorJSON"
    THEN [Error |-> TRUE, Message |-> wreq.data, Data |-> "nil"]
    ELSE wreq.data

\* json.Marshal of a JSONResponse: its three keys in order, or an error.
Marshal(v) ==
    IF v.Data = "chan"
    THEN [out |-> <<>>, err |-> "json: unsupported type: chan int"]
    ELSE [out |-> << <<"error", v.Error>>, <<"message", v.Message>>,
                     <<"data", IF v.Data = "nil" THEN "null" ELSE v.Data>> >>,
          err |-> NoError]

\* w.Header()[k] = v
SetHeader(h, k, v) == [x \in DOMAIN h \cup {k} |-> IF x = k THEN v ELSE h[x]]

\* for k, v := range headers[0] { w.Header()[k] = v }
CopyHeaders(h, extra) ==
    [x \in DOMAIN h \cup DOMAIN extra |-> IF x \in DOMAIN extra THEN extra[x] ELSE h[x]]

\* ResponseWriter.WriteHeader: the first call sends the status and the headers as
\* they are then; a later call changes nothing.
RWWriteHeader(rw, code) ==
    IF rw.wroteHeader THEN rw
    ELSE [rw EXCEPT !.wroteHeader = TRUE, !.status = code, !.sent = rw.header,
                    !.statusWrites = rw.statusWrites + 1]

\* ResponseWriter.Write: sends status 200 first when no status was written.
RWWrite(rw, bytes) ==
    LET r == RWWriteHeader(rw, StatusOK)
    IN [r EXCEPT !.body = r.body \o bytes]

StepAfterBodyFirst(step) ==
    CASE step = "marshal" -> "headers"
      [] step = "headers" -> "write"
      [] step = "write" -> "writeHeader"
      [] OTHER -> "done"

\* The order of the statements of WriteJSON.
StepAfter(step) ==
    CASE step = "marshal" -> "headers"
      [] step = "headers" -> "writeHeader"
      [] step = "writeHeader" -> "write"
      [] OTHER -> "done"

\* The caller enters WriteJSON, directly or through ErrorJSON.
WriteEntry ==
    /\ wpc = "entry"
    /\ wpc' = "marshal"
    /\ UNCHANGED <<t, wreq, w, out, wret>>
    /\ UNCHANGED notWrite

\* out, err := json.Marshal(data); if err != nil { return err }
WriteMarshal ==
    /\ wpc = "marshal"
    /\ LET m == Marshal(DataArg)
       IN IF m.err # NoError
          THEN /\ wret' = m.err
               /\ wpc' = "done"
               /\ UNCHANGED out
          ELSE /\ out' = m.out
               /\ wpc' = StepAfter("marshal")
               /\ UNCHANGED wret
    /\ UNCHANGED <<t, wreq, w>>
    /\ UNCHANGED notWrite

\* The caller's headers, then w.Header().Set("Content-Type", "application/json")
WriteSetHeaders ==
    /\ wpc = "headers"
    /\ LET h == IF Len(wreq.headers) > 0 THEN CopyHeaders(w.header, wreq.headers[1])
                ELSE w.header
       IN w' = [w EXCEPT !.header = SetHeader(h, "Content-Type", "application/json")]
    /\ wpc' = StepAfter("headers")
    /\ UNCHANGED <<t, wreq, out, wret>>
    /\ UNCHANGED notWrite

\* w.WriteHeader(status)
WriteStatus ==
    /\ wpc = "writeHeader"
    /\ w' = RWWriteHeader(w, StatusArg)
    /\ wpc' = StepAfter("writeHeader")
    /\ UNCHANGED <<t, wreq, out, wret>>
    /\ UNCHANGED notWrite

\* _, err = w.Write(out): the connection may fail.
WriteBody ==
    /\ wpc = "write"
    /\ \E ok \in BOOLEAN :
          IF ok THEN /\ w' = RWWrite(w, out)
                     /\ UNCHANGED wret
          ELSE /\ w' = RWWrite(w, <<>>)
               /\ wret' = "write: broken pipe"
    /\ wpc' = StepAfter("write")
    /\ UNCHANGED <<t, wreq, out>>
    /\ UNCHANGED notWrite

NextWrite ==
    \/ WriteEntry
    \/ WriteMarshal
    \/ WriteSetHeaders
    \/ WriteStatus
    \/ WriteBody

SpecWrite == InitWrite /\ [][NextWrite]_vars

(***************************************************************************)
(* Goroutines calling methods on one shared *Tools: their accesses to the  *)
(* fields of t, one access per step, with no synchronisation between them. *)
(***************************************************************************)
\* Goroutines that share t.
NumGoroutines == 2

Goroutines == 1 .. NumGoroutines

Methods == {"UploadFiles", "UploadOneFile", "ReadJSON", "WriteJSON", "ErrorJSON"}

InitConc ==
    /\ t \in [MaxFileSize : {0, SmallLimit}, AllowedFileTypes : {<<"image/jpeg">>},
              MaxJSONSize : {0, JsonCap}, AllowUnknownFields : {FALSE}]
    /\ gcall \in [Goroutines -> Methods]
    /\ gpc = [g \in Goroutines |-> "start"]
    /\ glimit = [g \in Goroutines |-> 0]
    /\ IdleUpload
    /\ IdleJSON
    /\ IdleWrite

\* The method body entered: UploadOneFile runs UploadFiles on the same receiver.
GoEnter(g) ==
    /\ gpc[g] = "start"
    /\ gpc' = [gpc EXCEPT ![g] =
                  CASE gcall[g] \in {"UploadFiles", "UploadOneFile"} -> "checkMaxFileSize"
                    [] gcall[g] = "ReadJSON" -> "readMaxJSONSize"
                    [] OTHER -> "respond"]
    /\ UNCHANGED <<t, gcall, glimit>>
    /\ UNCHANGED notConc

\* if t.MaxFileSize == 0
GoCheckMaxFileSize(g) ==
    /\ gpc[g] = "checkMaxFileSize"
    /\ gpc' = [gpc EXCEPT ![g] = IF t.MaxFileSize = 0 THEN "setMaxFileSize" ELSE "parse"]
    /\ UNCHANGED <<t, gcall, glimit>>
    /\ UNCHANGED notConc

\* t.MaxFileSize = 1024 * 1024 * 1024
GoSetMaxFileSize(g) ==
    /\ gpc[g] = "setMaxFileSize"
    /\ t' = [t EXCEPT !.MaxFileSize = DefaultMaxFileSize]
    /\ gpc' = [gpc EXCEPT ![g] = "parse"]
    /\ UNCHANGED <<gcall, glimit>>
    /\ UNCHANGED notConc

\* r.ParseMultipartForm(int64(t.MaxFileSize))
GoParse(g) ==
    /\ gpc[g] = "parse"
    /\ glimit' = [glimit EXCEPT ![g] = t.MaxFileSize]
    /\ gpc' = [gpc EXCEPT ![g] = "readAllowedFileTypes"]
    /\ UNCHANGED <<t, gcall>>
    /\ UNCHANGED notConc

\* len(t.AllowedFileTypes) > 0 and the range over it
GoReadAllowedFileTypes(g) ==
    /\ gpc[g] = "readAllowedFileTypes"
    /\ gpc' = [gpc EXCEPT ![g] = "done"]
    /\ UNCHANGED <<t, gcall, glimit>>
    /\ UNCHANGED notConc

\* if t.MaxJSONSize != 0 { maxBytes = t.MaxJSONSize }
GoReadMaxJSONSize(g) ==
    /\ gpc[g] = "readMaxJSONSize"
    /\ glimit' = [glimit EXCEPT ![g] = EffectiveMaxBytes(t.MaxJSONSize)]
    /\ gpc' = [gpc EXCEPT ![g] = "readAllowUnknownFields"]
    /\ UNCHANGED <<t, gcall>>
    /\ UNCHANGED notConc

\* if !t.AllowUnknownFields
GoReadAllowUnknownFields(g) ==
    /\ gpc[g] = "readAllowUnknownFields"
    /\ gpc' = [gpc EXCEPT ![g] = "done"]
    /\ UNCHANGED <<t, gcall, glimit>>
    /\ UNCHANGED notConc

\* WriteJSON and ErrorJSON touch no field of t.
GoRespond(g) ==
    /\ gpc[g] = "respond"
    /\ gpc' = [gpc EXCEPT ![g] = "done"]
    /\ UNCHANGED <<t, gcall, glimit>>
    /\ UNCHANGED notConc

NextConc ==
    \/ \E g \in Goroutines : GoEnter(g)
    \/ \E g \in Goroutines : GoCheckMaxFileSize(g)
    \/ \E g \in Goroutines : GoSetMaxFileSize(g)
    \/ \E g \in Goroutines : GoParse(g)
    \/ \E g \in Goroutines : GoReadAllowedFileTypes(g)
    \/ \E g \in Goroutines : GoReadMaxJSONSize(g)
    \/ \E g \in Goroutines : GoReadAllowUnknownFields(g)
    \/ \E g \in Goroutines : GoRespond(g)

SpecConc == InitConc /\ [][NextConc]_vars

(***************************************************************************)
(* Properties of the upload pipeline.                                      *)
(***************************************************************************)
Returned == pc \in {"returned", "done"}

\* The part's sniffed type matches no entry of a non-empty allow-list.
Disallowed(p) ==
    /\ Len(t.AllowedFileTypes) > 0
    /\ req.parts[p].size > 0
    /\ \A i \in DOMAIN t.AllowedFileTypes :
          Fold(t.AllowedFileTypes[i]) # Fold(DetectContentType(req.parts[p].magic))

FromPart(p) == {k \in DOMAIN disk : disk[k].part = p}

\* C1: when UploadFiles returns an empty manifest and no error, UploadOneFile
\* returns an error value (NoFilesUploaded) and does not crash.
C1_EmptyManifestIsError ==
    (pc = "done" /\ call.fn = "UploadOneFile" /\ ret.err = NoError /\ Len(ret.files) = 0)
        => (oneRet.err # NoError /\ ~oneRet.panic)

\* C2: with a non-empty allow-list, the first part whose sniffed type matches no
\* entry ends the call with "uploaded file type is not permitted": that part is not
\* stored, it is the last part opened, nothing of it reaches the upload directory,
\* and a call that returns no error has stored every part of the request.
C2_DisallowedAbortsBatch ==
    /\ \A k \in DOMAIN opened :
          Disallowed(opened[k]) =>
              /\ k = Len(opened)
              /\ Returned
              /\ ret.err = "uploaded file type is not permitted"
              /\ ret.files = <<>>
              /\ opened[k] \notin Range(written)
              /\ FromPart(opened[k]) = {}
    /\ (Returned /\ ret.err = NoError /\ req.multipart) =>
          /\ Len(ret.files) = Len(req.parts)
          /\ \A p \in DOMAIN req.parts : ~Disallowed(p)

\* A disallowed part ended the call while a later part of the request was never opened.
C2_Witness ==
    /\ pc = "returned"
    /\ Len(req.parts) = 2
    /\ Len(opened) = 1
    /\ Disallowed(opened[1])
    /\ ret.err = "uploaded file type is not permitted"

\* Entry k of a manifest describes part p.
Describes(f, p) ==
    /\ f.OriginalFileName = req.parts[p].filename
    /\ f.FileSize = req.parts[p].size

\* C3 as stated: a successful UploadFiles returns one entry per part, entry k being
\* the k-th part of the multipart stream, and the parts were written in that order.
C3_ManifestInStreamOrder ==
    (Returned /\ ret.err = NoError /\ req.multipart) =>
        /\ Len(ret.files) = Len(req.parts)
        /\ \A k \in DOMAIN ret.files : written[k] = k /\ Describes(ret.files[k], k)

\* C3 amended: the manifest has one entry per part stored so far, in the order
\* the parts were written; a successful call has written every part exactly once;
\* parts of one form field are written in their stream order (the order between
\* different form fields is the map's iteration order).
C3_ManifestInProcessingOrder ==
    /\ pc = "range" =>
          /\ Len(uploadedFiles) = Len(written)
          /\ \A k \in DOMAIN uploadedFiles : Describes(uploadedFiles[k], written[k])
    /\ (Returned /\ ret.err = NoError /\ req.multipart) =>
          /\ Len(ret.files) = Len(req.parts)
          /\ Len(written) = Len(req.parts)
          /\ Range(written) = DOMAIN req.parts
          /\ \A k \in DOMAIN ret.files : Describes(ret.files[k], written[k])
          /\ \A i, j \in DOMAIN written :
                (i < j /\ req.parts[written[i]].field = req.parts[written[j]].field)
                    => written[i] < written[j]

\* A successful call that stored the second part of the stream before the first.
C3_Witness ==
    /\ pc = "returned"
    /\ ret.err = NoError
    /\ written = <<2, 1>>
    /\ ret.files[1].OriginalFileName # ret.files[2].OriginalFileName

FileSystemErrors == {"open failed", "seek failed", "create failed", "copy failed",
                     "mkdir: no such file or directory"}

\* C4: unless the file system fails, a request whose file parts together are
\* larger than MaxFileSize is answered with "uploaded file is too big", with no
\* part opened and no file written to the upload directory.
C4_OversizedBodyRejected ==
    (Returned /\ req.multipart /\ SumSizes(req.parts) > t.MaxFileSize
              /\ ret.err \notin FileSystemErrors)
        => (ret.err = "uploaded file is too big" /\ opened = <<>> /\ disk = <<>>)

\* Entry k was not overwritten by a later entry of the same name.
NotOverwritten(k) ==
    \A j \in DOMAIN uploadedFiles :
        j > k => uploadedFiles[j].NewFileName # uploadedFiles[k].NewFileName

\* C10: for every part stored, the recorded FileSize is the part's length and the
\* file at uploadDir/NewFileName holds the part from its first byte to its last
\* (until a later part of the same name replaces it); a part whose sniff read fails
\* (an empty part: EOF) ends the call with that error and is the last one opened.
C10_SniffConsumesNothing ==
    /\ \A k \in DOMAIN uploadedFiles :
          /\ uploadedFiles[k].FileSize = req.parts[written[k]].size
          /\ NotOverwritten(k) =>
                /\ uploadedFiles[k].NewFileName \in DOMAIN disk
                /\ disk[uploadedFiles[k].NewFileName] =
                      [part |-> written[k], from |-> 0, n |-> req.parts[written[k]].size]
    /\ \A k \in DOMAIN opened :
          req.parts[opened[k]].size = 0 =>
              /\ k = Len(opened)
              /\ Returned
              /\ ret.err = "EOF"
              /\ ret.files = <<>>
              /\ FromPart(opened[k]) = {}

\* A part shorter than the sniff buffer and a part longer than it were both stored.
C10_Witness ==
    /\ pc = "returned"
    /\ ret.err = NoError
    /\ \E j, k \in DOMAIN ret.files :
          /\ ret.files[j].FileSize < SniffLen
          /\ ret.files[k].FileSize > SniffLen
          /\ disk[ret.files[j].NewFileName].n = ret.files[j].FileSize

(***************************************************************************)
(* Properties of the JSON decoder.                                         *)
(***************************************************************************)
JDone == jpc = "done"

\* The configured byte limit (1 MiB when MaxJSONSize is zero).
Limit == IF t.MaxJSONSize = 0 THEN DefaultMaxJSONSize ELSE t.MaxJSONSize

Oversized == Len(jreq.body) > Limit

\* The bytes of the body that lie within the limit.
WithinLimit == SubSeq(jreq.body, 1, Min(Len(jreq.body), Limit))

BodyTooLarge == Msg("body must not be larged than %d bytes", Limit, "")

MultipleJSONValues == Msg("body must contain only one JSON value", 0, "")

TaxonomyMessages ==
    {"body contains badly formed JSON at character %d",
     "body contains badly formed JSON",
     "body contains incorrect JSON type for field %q",
     "body contains incorrect JSON type at characted %d",
     "body must not be empty",
     "body contains unknown key %s",
     "body must not be larged than %d bytes",
     "body must contain only one JSON value"}

\* C5 as stated: for every body longer than the limit ReadJSON returns the
\* BodyTooLarge error carrying the limit, whatever the body holds.
C5_OversizedAlwaysTooLarge ==
    (JDone /\ Oversized) => jret = BodyTooLarge

\* C5 amended: for every body longer than the limit ReadJSON returns an error,
\* and that error is BodyTooLarge carrying the limit exactly when the bytes within
\* the limit hold neither a syntax error nor a complete first value; a syntax
\* error within the limit is reported as such, and a first value that ends within
\* the limit is reported by its own error or as MultipleJSONValues.
C5_TooLargeWhenValueOpenAtLimit ==
    (JDone /\ Oversized) =>
        LET r == Scan(WithinLimit, 1, "begin", 0)
        IN /\ jret.msg # NoError
           /\ (r.st = "more") <=> (jret = BodyTooLarge)
           /\ (r.st = "syntax") =>
                 jret = Msg("body contains badly formed JSON at character %d", r.next, "")
           /\ (r.st = "value") =>
                 jret.msg \in {"body contains incorrect JSON type for field %q",
                               "body contains incorrect JSON type at characted %d",
                               "body contains unknown key %s",
                               "error unmarshaling JSON %s",
                               "body must contain only one JSON value"}

\* A body cut by the configured limit inside its value was answered BodyTooLarge.
C5_Witness ==
    /\ JDone
    /\ t.MaxJSONSize = JsonCap
    /\ Oversized
    /\ WithinLimit[1] = "{"
    /\ jret = BodyTooLarge

\* The first value decoded into the target and the second Decode has run.
FirstValueDecoded == JDone /\ ~Oversized /\ firstErr = NoErr

\* What follows the first value in the body.
Rest == SubSeq(jreq.body, dec.scanp, Len(jreq.body))

\* C6 as stated: when the first value decodes, ReadJSON returns MultipleJSONValues
\* if anything other than end-of-stream follows it, and success otherwise.
C6_AnythingAfterFirstValueRejected ==
    FirstValueDecoded =>
        IF Rest # <<>> \/ jreq.end # "EOF"
        THEN jret = MultipleJSONValues
        ELSE jret.msg = NoError

\* C6 amended: when the first value decodes, ReadJSON returns MultipleJSONValues
\* if anything other than white space comes before the end-of-stream (a second
\* value, stray bytes, or a failed read), and success otherwise: white space
\* after the value is accepted.
C6_OnlyWhiteSpaceMayFollow ==
    FirstValueDecoded =>
        IF NonSpace(Rest) \/ jreq.end # "EOF"
        THEN jret = MultipleJSONValues
        ELSE jret.msg = NoError

\* A body with a second value after the first was rejected.
C6_Witness ==
    /\ FirstValueDecoded
    /\ jreq.end = "EOF"
    /\ NonSpace(Rest)
    /\ Rest[1] = "{"
    /\ jret = MultipleJSONValues

\* C7 as stated: every error ReadJSON returns is one of the fixed taxonomy
\* messages; the parser's or reader's own error text is never returned.
C7_EveryErrorInTaxonomy ==
    (JDone /\ jret.msg # NoError) =>
        /\ jret.msg \in TaxonomyMessages
        /\ jret.text \notin {ErrorText(firstErr)}

\* C7 amended: an empty body gives EmptyBody, malformed or truncated syntax gives
\* SyntaxError, a wrong-typed value gives TypeMismatch (naming the field when
\* known), an unknown key in strict mode gives UnknownField, a body over the limit
\* gives BodyTooLarge and trailing content gives MultipleJSONValues, all with fixed
\* messages; but an invalid decode target is reported with the parser's own text
\* appended, and any other error of the first Decode (a failed read of the body)
\* is returned unchanged.
C7_ClassifiedExceptInvalidTargetAndReadErrors ==
    JDone =>
        /\ firstErr.type = "io.EOF" => jret = Msg("body must not be empty", 0, "")
        /\ firstErr.type = "SyntaxError" =>
              jret = Msg("body contains badly formed JSON at character %d",
                         firstErr.offset, "")
        /\ firstErr.type = "io.ErrUnexpectedEOF" =>
              jret = Msg("body contains badly formed JSON", 0, "")
        /\ firstErr.type = "UnmarshalTypeError" =>
              IF firstErr.field # ""
              THEN jret = Msg("body contains incorrect JSON type for field %q", 0,
                              firstErr.field)
              ELSE jret = Msg("body contains incorrect JSON type at characted %d",
                              firstErr.offset, "")
        /\ firstErr.type = "unknown field" =>
              jret = Msg("body contains unknown key %s", 0, firstErr.field)
        /\ firstErr.type = "MaxBytesError" => jret = BodyTooLarge
        /\ firstErr.type = "InvalidUnmarshalError" =>
              jret = Msg("error unmarshaling JSON %s", 0, "json: Unmarshal(non-pointer)")
        /\ firstErr.type = "net.OpError" =>
              jret = Msg("read: connection reset by peer", 0, "")
        /\ firstErr = NoErr => jret.msg \in {NoError, "body must contain only one JSON value"}
        /\ firstErr.type \notin {"InvalidUnmarshalError", "net.OpError"} =>
              jret.msg \in TaxonomyMessages \cup {NoError}
        /\ (~NonSpace(jreq.body) /\ ~Oversized /\ jreq.end = "EOF") =>
              jret = Msg("body must not be empty", 0, "")

\* A wrong-typed value of field foo was reported as TypeMismatch naming foo.
C7_Witness ==
    /\ JDone
    /\ firstErr.type = "UnmarshalTypeError"
    /\ jret = Msg("body contains incorrect JSON type for field %q", 0, "foo")

(***************************************************************************)
(* Properties of the response writer.                                      *)
(***************************************************************************)
\* The response carries the JSON content type and the caller's other headers.
HeadersSent ==
    /\ "Content-Type" \in DOMAIN w.sent
    /\ w.sent["Content-Type"] = "application/json"
    /\ Len(wreq.headers) > 0 =>
          \A k \in DOMAIN wreq.headers[1] \ {"Content-Type"} :
              k \in DOMAIN w.sent /\ w.sent[k] = wreq.headers[1][k]

\* C9: in WriteJSON (and ErrorJSON through it) the headers and the status are
\* sent before any byte of the body, the status is written once and is the one
\* asked for, and when json.Marshal fails the error is returned with nothing set
\* or written on the response.
C9_HeadersAndStatusBeforeBody ==
    /\ w.statusWrites <= 1
    /\ wpc = "write" => w.wroteHeader
    /\ Len(w.body) > 0 =>
          /\ w.wroteHeader
          /\ w.statusWrites = 1
          /\ w.status = StatusArg
          /\ HeadersSent
    /\ (wpc = "done" /\ wret = NoError) =>
          /\ w.statusWrites = 1
          /\ w.status = StatusArg
          /\ HeadersSent
          /\ w.body = Marshal(DataArg).out
    /\ (wpc = "done" /\ Marshal(DataArg).err # NoError) =>
          /\ wret = Marshal(DataArg).err
          /\ w = FreshWriter(wreq.preset)

\* ErrorJSON answered 503 with a body, over a Content-Type the caller had preset.
C9_Witness ==
    /\ wpc = "done"
    /\ wreq.fn = "ErrorJSON"
    /\ wreq.preset # <<>>
    /\ w.status = StatusServiceUnavailable
    /\ Len(w.body) > 0
    /\ w.body[1] = <<"error", TRUE>>

(***************************************************************************)
(* Properties of concurrent calls.                                         *)
(***************************************************************************)
\* The fields of t the next step of goroutine g reads, and those it writes.
Reads(g) ==
    CASE gpc[g] \in {"checkMaxFileSize", "parse"} -> {"MaxFileSize"}
      [] gpc[g] = "readAllowedFileTypes" -> {"AllowedFileTypes"}
      [] gpc[g] = "readMaxJSONSize" -> {"MaxJSONSize"}
      [] gpc[g] = "readAllowUnknownFields" -> {"AllowUnknownFields"}
      [] OTHER -> {}

Writes(g) == IF gpc[g] = "setMaxFileSize" THEN {"MaxFileSize"} ELSE {}

\* C8: no method writes a field of t, so two calls running at the same time on
\* one Tools value never race: no goroutine is about to write a field that
\* another goroutine is about to read or write.
C8_NoRaceOnConfiguration ==
    \A g, h \in Goroutines :
        g # h => Writes(g) \cap (Reads(h) \cup Writes(h)) = {}

====
